---- MODULE Spec2Model ----
(***************************************************************************)
(* Cerina Protocol Foundry: the supervisor-routed multi-agent workflow     *)
(* (backend/core/graph.py), its routing policy (backend/agents/            *)
(* supervisor.py), the agents' state deltas and the human approval gate.   *)
(*                                                                         *)
(* One session (thread) is modelled.  `state` is the blackboard            *)
(* CerinaState as LangGraph holds and persists it after every node; each   *)
(* node of the graph is one action: the node's delta, the channel          *)
(* reducers, and the conditional edge that picks the next node.            *)
(* Scores are kept in tenths (7.0 is 70), so all arithmetic is integer.    *)
(*                                                                         *)
(* The graph is modelled as build_cerina_graph defines it.  The library's  *)
(* recursion limit, which aborts a stream call with GraphRecursionError    *)
(* after a fixed number of supersteps, is no part of the workflow's own    *)
(* logic and is not modelled.                                              *)
(***************************************************************************)
EXTENDS Integers, Sequences, FiniteSets, TLC

VARIABLES
    state,      \* the session's CerinaState (channel values of the thread)
    next,       \* the node the graph runs next ("none" before a run starts)
    run,        \* "idle", "running", "interrupted" (before human_review), "done"
    executed,   \* the step that produced the current state
    decision,   \* the human decision the run is resuming with, or NoDecision
    advisory,       \* history: what the advisory suggested to the supervisor step
    final_state,    \* what create_protocol / resume_after_approval will return
    human_approved, \* history: a decision with approved = true was submitted
    checkpoints,    \* the checkpoints table, in order of created_at
    protocols,      \* the thread_ids of the rows of the protocols table
    config,         \* per caller: the checkpoint_id its config carries
    pc,             \* per caller: where it is in create / approve / stream
    completed_steps, \* history: node executions and state updates completed
    pending         \* the deltas applied to a session outside a run

workflow_vars == <<state, next, run, executed, decision, advisory, final_state,
                   human_approved>>

store_vars == <<checkpoints, protocols, config, pc, completed_steps>>

merge_vars == <<pending>>

vars == <<state, next, run, executed, decision, advisory, final_state, human_approved,
          checkpoints, protocols, config, pc, completed_steps, pending>>

-----------------------------------------------------------------------------
(* Bounds of the model *)

\* Entries kept of a log that the program only ever reads from its tail.
MaxLog == 1
\* Draft versions up to which the two inputs that add a version without
\* advancing the iteration are drawn: empty generated content, human edits.
MaxDrafts == 2
\* Safety flags up to which a safety review may still raise a new flag.
MaxFlags == 1
\* Entries of the errors list up to which a step may still fail.
MaxErrors == 1
\* Checkpoints the table may hold in the model of the checkpoint store.
MaxCheckpoints == 5
\* Checkpoints of the table that may belong to the other thread.
MaxOther == 2
\* Checkpoints that may carry the created_at of the checkpoint put before.
MaxTies == 1
\* Steps for which a run with fixed outputs is followed to its end.
MaxRun == 12

(* Program constants *)

max_iterations_default == 5
safety_margin == 2
min_safety_score == 70
min_clinical_score == 60
min_empathy_score == 60
initial_safety_score == 100

-----------------------------------------------------------------------------
(* Vocabulary *)

END == "__end__"
NoEdits == "none"
NoFeedback == "none"
NoDecision == [approved |-> FALSE, edits |-> "unset"]

DRAFTING == "drafting"
IN_REVIEW == "in_review"
PENDING_HUMAN_REVIEW == "pending_human_review"
HUMAN_EDITING == "human_editing"
APPROVED == "approved"
REJECTED == "rejected"

AgentNames == {"drafting", "clinical_critic", "safety_guardian", "empathy", "supervisor"}

\* AgentRoute, and the list valid_agents of _apply_decision
valid_agents == {"drafting", "clinical_critic", "safety_guardian", "empathy",
                 "human_review", "complete", "terminate"}

\* What the advisory (the supervisor's LLM) may suggest: any valid route, or
\* a name outside the valid set.
Suggestions == valid_agents \cup {"bogus"}

\* No advisory was asked, or its call raised.
NoSuggestion == "none"

\* Content the generation capability may return (possibly empty), and the
\* content of a human edit (a non-empty string).
LLMContent == {"", "llm_text"}
HumanEdits == {"human_text"}

\* The optional feedback of a human decision.
Feedbacks == {NoFeedback, "feedback"}

\* Fields of CerinaState with the operator.add reducer.
ListFields == {"draft_versions", "safety_flags", "clinical_feedback",
               "debate_history", "supervisor_decisions", "messages", "errors"}

\* The reducer lists that no code path reads other than from the tail
\* (decisions[-1], debate_history[-5:], clinical_feedback[-3:], messages[-10:]).
TailFields == {"clinical_feedback", "debate_history", "supervisor_decisions",
               "messages"}

Last(s) == s[Len(s)]

Keep(s) == IF Len(s) > MaxLog THEN SubSeq(s, Len(s) - MaxLog + 1, Len(s)) ELSE s

Max(a, b) == IF a >= b THEN a ELSE b

-----------------------------------------------------------------------------
(* models/state.py *)

create_initial_state ==
    [ current_draft |-> "",
      draft_versions |-> <<>>,
      safety_flags |-> <<>>,
      safety_score |-> initial_safety_score,
      clinical_feedback |-> <<>>,
      clinical_score |-> 0,
      empathy_scores |-> [overall |-> 0],
      iteration_count |-> 0,
      max_iterations |-> max_iterations_default,
      agent_notes |-> [a \in AgentNames |-> <<>>],
      debate_history |-> <<>>,
      approval_status |-> DRAFTING,
      active_agent |-> "supervisor",
      supervisor_decisions |-> <<>>,
      human_feedback |-> NoFeedback,
      messages |-> <<>>,
      errors |-> <<>> ]

\* A reducer that keeps only the returned list.
merge_lists_replacing(left, right) == right

\* operator.add on two lists.
merge_lists(left, right) == left \o right

\* A channel update that starts from a fresh state: a key absent from the
\* delta falls back to its initial value.
Apply_from_initial(st, delta) ==
    [ f \in DOMAIN st |->
        IF f \in DOMAIN delta
        THEN IF f \in ListFields THEN merge_lists(st[f], delta[f]) ELSE delta[f]
        ELSE create_initial_state[f] ]

\* LangGraph's channel update for a node's returned dict: a key with the
\* operator.add annotation is concatenated, any other key is overwritten,
\* a key absent from the delta is left alone.
Apply(st, delta) ==
    [ f \in DOMAIN st |->
        IF f \in DOMAIN delta
        THEN IF f \in ListFields THEN merge_lists(st[f], delta[f]) ELSE delta[f]
        ELSE st[f] ]

\* The state as the model retains it after a step.
Retain(st) ==
    [ f \in DOMAIN st |->
        IF f \in TailFields THEN Keep(st[f])
        ELSE IF f = "agent_notes" THEN [a \in DOMAIN st[f] |-> Keep(st[f][a])]
        ELSE st[f] ]

Merge(st, delta) == Retain(Apply(st, delta))

-----------------------------------------------------------------------------
(* agents/base.py *)

\* BaseAgent.add_note: the agent's list in agent_notes gets one more note;
\* the whole dict is returned as the update of the (overwritten) key.
add_note(st, name) ==
    [ agent_notes |-> [st.agent_notes EXCEPT ![name] = Append(@, "note")] ]

\* A debate entry, a message and a feedback entry are kept as records of
\* their kind only: no code path reads their content back.
create_debate_entry(st, name, message_type) == [kind |-> "debate"]

message(name) == [kind |-> "message"]

feedback_entry(name) == [kind |-> "feedback"]

\* BaseAgent.invoke when process() returned: the stamp, overridden by
\* whatever process() returned (updates.update(process_updates)).
invoke_ok(name, process_updates) ==
    process_updates @@ [active_agent |-> name]

\* An error delta that also drops the draft.
invoke_error_dropping_draft(name) ==
    [ errors |-> <<"Agent error">>, active_agent |-> name, current_draft |-> "" ]

\* BaseAgent.invoke when process() raised.
invoke_error(name) ==
    [ errors |-> <<"Agent error">>, active_agent |-> name ]

\* What call_llm may return to an evaluator: text holding a JSON object
\* that parses to one of the given values, or text that does not parse.
MalformedResponse == [json |-> FALSE]
Responses(values) == { [json |-> TRUE, value |-> v] : v \in values } \cup {MalformedResponse}

-----------------------------------------------------------------------------
(* agents/supervisor.py: the routing policy *)

Unresolved(st, severities) ==
    { i \in 1..Len(st.safety_flags) :
        /\ ~st.safety_flags[i].resolved
        /\ st.safety_flags[i].severity \in severities }

\* A readiness check that looks at the three scores only.
_check_ready_ignoring_flags(st) ==
    IF st.safety_score < min_safety_score THEN FALSE
    ELSE IF st.clinical_score < min_clinical_score THEN FALSE
    ELSE IF st.empathy_scores.overall < min_empathy_score THEN FALSE
    ELSE TRUE

_check_ready_for_review(st) ==
    IF st.safety_score < min_safety_score THEN FALSE
    ELSE IF Unresolved(st, {"critical", "high"}) # {} THEN FALSE
    ELSE IF st.clinical_score < min_clinical_score THEN FALSE
    ELSE IF st.empathy_scores.overall < min_empathy_score THEN FALSE
    ELSE TRUE

\* A priority that looks at the clinical score before the safety score.
_determine_needed_review_clinical_first(st) ==
    IF st.clinical_score < min_clinical_score THEN "clinical_critic"
    ELSE IF st.safety_score < min_safety_score THEN "safety_guardian"
    ELSE IF st.empathy_scores.overall < min_empathy_score THEN "empathy"
    ELSE "drafting"

_determine_needed_review(st) ==
    IF st.safety_score < min_safety_score THEN "safety_guardian"
    ELSE IF st.clinical_score < min_clinical_score THEN "clinical_critic"
    ELSE IF st.empathy_scores.overall < min_empathy_score THEN "empathy"
    ELSE "drafting"

\* Rules 1 to 5 without the normalisation of Rule 4.
_apply_decision_keeping_suggestion(suggested_agent, st) ==
    IF st.current_draft = "" THEN <<"drafting", TRUE>>
    ELSE IF Unresolved(st, {"critical"}) # {} /\ suggested_agent # "drafting"
         THEN <<"drafting", TRUE>>
    ELSE IF st.iteration_count >= st.max_iterations THEN <<"human_review", FALSE>>
    ELSE IF suggested_agent = "human_review" /\ ~_check_ready_for_review(st)
         THEN <<_determine_needed_review(st), TRUE>>
         ELSE <<suggested_agent,
                suggested_agent \notin {"human_review", "complete", "terminate"}>>

\* Rules 1 to 5 with a cap that holds only beyond max_iterations.
_apply_decision_beyond_cap(suggested_agent, st) ==
    IF st.current_draft = "" THEN <<"drafting", TRUE>>
    ELSE IF Unresolved(st, {"critical"}) # {} /\ suggested_agent # "drafting"
         THEN <<"drafting", TRUE>>
    ELSE IF st.iteration_count > st.max_iterations THEN <<"human_review", FALSE>>
    ELSE LET suggested == IF suggested_agent \notin valid_agents
                          THEN "drafting" ELSE suggested_agent
         IN  IF suggested = "human_review" /\ ~_check_ready_for_review(st)
             THEN <<_determine_needed_review(st), TRUE>>
             ELSE <<suggested, suggested \notin {"human_review", "complete", "terminate"}>>

\* Rules 1 to 5 in the order of the code; the result is
\* <<next_agent, should_continue>>.
_apply_decision(suggested_agent, st) ==
    IF st.current_draft = "" THEN <<"drafting", TRUE>>
    ELSE IF Unresolved(st, {"critical"}) # {} /\ suggested_agent # "drafting"
         THEN <<"drafting", TRUE>>
    ELSE IF st.iteration_count >= st.max_iterations THEN <<"human_review", FALSE>>
    ELSE LET suggested == IF suggested_agent \notin valid_agents
                          THEN "drafting" ELSE suggested_agent
         IN  IF suggested = "human_review" /\ ~_check_ready_for_review(st)
             THEN <<_determine_needed_review(st), TRUE>>
             ELSE <<suggested, suggested \notin {"human_review", "complete", "terminate"}>>

_determine_status(next_agent, st) ==
    IF next_agent = "human_review" THEN PENDING_HUMAN_REVIEW
    ELSE IF next_agent = "complete" THEN APPROVED
    ELSE IF next_agent = "terminate" THEN REJECTED
    ELSE IF st.current_draft = "" THEN DRAFTING
    ELSE IN_REVIEW

\* A supervisor that counts every routing to drafting, the first draft too.
supervisor_process_counting_first_draft(suggested_agent, st) ==
    LET applied == _apply_decision(suggested_agent, st)
        next_agent == applied[1]
        should_continue == applied[2]
        new_status == _determine_status(next_agent, st)
        decision_record == [ next_agent |-> next_agent,
                             should_continue |-> should_continue ]
        new_iteration == IF next_agent = "drafting"
                         THEN st.iteration_count + 1 ELSE st.iteration_count
    IN  [ active_agent |-> IF next_agent \notin {"human_review", "complete", "terminate"}
                           THEN next_agent ELSE "supervisor",
          supervisor_decisions |-> <<decision_record>>,
          debate_history |-> <<create_debate_entry(st, "supervisor", "suggestion")>>,
          approval_status |-> new_status,
          iteration_count |-> new_iteration,
          messages |-> <<message("supervisor")>> ]
        @@ add_note(st, "supervisor")

\* SupervisorAgent.process for an advisory that suggests suggested_agent.
supervisor_process(suggested_agent, st) ==
    LET applied == _apply_decision(suggested_agent, st)
        next_agent == applied[1]
        should_continue == applied[2]
        new_status == _determine_status(next_agent, st)
        decision_record == [ next_agent |-> next_agent,
                             should_continue |-> should_continue ]
        new_iteration == IF next_agent = "drafting" /\ st.current_draft # ""
                         THEN st.iteration_count + 1 ELSE st.iteration_count
    IN  [ active_agent |-> IF next_agent \notin {"human_review", "complete", "terminate"}
                           THEN next_agent ELSE "supervisor",
          supervisor_decisions |-> <<decision_record>>,
          debate_history |-> <<create_debate_entry(st, "supervisor", "suggestion")>>,
          approval_status |-> new_status,
          iteration_count |-> new_iteration,
          messages |-> <<message("supervisor")>> ]
        @@ add_note(st, "supervisor")

-----------------------------------------------------------------------------
(* agents/drafting.py *)

\* DraftingAgent.process for generated content `content` (after
\* _clean_draft_content on a revision).
drafting_process(content, st) ==
    IF st.current_draft = ""
    THEN [ current_draft |-> content,
           draft_versions |-> << [version |-> 1, content |-> content, agent |-> "drafting"] >>,
           messages |-> <<message("drafting")>> ]
         @@ add_note(st, "drafting")
    ELSE LET current_version == Len(st.draft_versions)
         IN  [ current_draft |-> content,
               draft_versions |-> << [version |-> current_version + 1,
                                      content |-> content, agent |-> "drafting"] >>,
               debate_history |-> <<create_debate_entry(st, "drafting", "suggestion")>>,
               messages |-> <<message("drafting")>> ]
             @@ add_note(st, "drafting")

-----------------------------------------------------------------------------
(* agents/safety_guardian.py *)

penalty(severity) ==
    CASE severity = "critical" -> 30
      [] severity = "high" -> 15
      [] severity = "medium" -> 5
      [] severity = "low" -> 2
      [] OTHER -> 5

RECURSIVE total_penalty(_)
total_penalty(flags) ==
    IF flags = <<>> THEN 0
    ELSE penalty(flags[1].severity) + total_penalty(Tail(flags))

_calculate_safety_score(base_score, flags) == Max(0, base_score - total_penalty(flags))

\* _process_flags: each reported flag becomes an unresolved flag record.
_process_flags(severities, st) ==
    [ i \in 1..Len(severities) |->
        [ severity |-> severities[i], resolved |-> FALSE ] ]

\* What a parsed safety review may hold: a base score and the severities of
\* its flags.  The review with base score 5.0 and no flag is the fallback of
\* _parse_safety_review.
SafetyReviews(st) ==
    { [safety_score |-> 100, flags |-> <<>>], [safety_score |-> 50, flags |-> <<>>] }
    \cup IF Len(st.safety_flags) < MaxFlags
         THEN { [safety_score |-> 90, flags |-> <<"critical">>],
                [safety_score |-> 90, flags |-> <<"high">>] }
         ELSE {}

\* _parse_safety_review: the parsed object, or the fallback structure
\* (safety_score 5.0, no flags) after json.JSONDecodeError, which is only
\* written to the logger.
_parse_safety_review(response) ==
    IF response.json THEN response.value
    ELSE [safety_score |-> 50, flags |-> <<>>]

safety_process(review, st) ==
    IF st.current_draft = ""
    THEN [ errors |-> <<"No draft">>,
           safety_score |-> 0,
           messages |-> <<message("safety_guardian")>> ]
    ELSE LET new_flags == _process_flags(review.flags, st)
             safety_score == _calculate_safety_score(review.safety_score, new_flags)
             critical_count == Cardinality({i \in 1..Len(new_flags) : new_flags[i].severity = "critical"})
             high_count == Cardinality({i \in 1..Len(new_flags) : new_flags[i].severity = "high"})
             msg_type == IF critical_count > 0 THEN "disagreement"
                         ELSE IF high_count > 0 THEN "critique"
                         ELSE IF Len(new_flags) > 0 THEN "suggestion"
                         ELSE "agreement"
         IN  [ safety_flags |-> new_flags,
               safety_score |-> safety_score,
               debate_history |-> <<create_debate_entry(st, "safety_guardian", msg_type)>>,
               messages |-> <<message("safety_guardian")>> ]
             @@ add_note(st, "safety_guardian")

-----------------------------------------------------------------------------
(* agents/clinical_critic.py *)

\* The four dimension scores (0..10) of a parsed evaluation, in the order
\* therapeutic_validity, structural_completeness, clinical_tone,
\* practical_utility.  The second is the fallback of _parse_evaluation.
ClinicalEvaluations == { <<0, 0, 0, 0>>, <<6, 6, 7, 7>> }

\* ClinicalCriticAgent._parse_evaluation: the parsed object, or the
\* fallback evaluation after json.JSONDecodeError, which is only written to
\* the logger.
clinical_parse_evaluation(response) ==
    IF response.json THEN response.value ELSE <<6, 6, 7, 7>>

\* _calculate_clinical_score with all four dimensions present: the weighted
\* sum (weights 0.35, 0.25, 0.20, 0.20) is divided by total_weight = 1, by
\* max(sum(weights), 1) = 1, and multiplied by 10.  In tenths that is
\* 100 * (0.35 a + 0.25 b + 0.20 c + 0.20 d).
_calculate_clinical_score(ev) ==
    35 * ev[1] + 25 * ev[2] + 20 * ev[3] + 20 * ev[4]

clinical_process(ev, st) ==
    IF st.current_draft = ""
    THEN [ errors |-> <<"No draft">>,
           messages |-> <<message("clinical_critic")>> ]
    ELSE LET clinical_score == _calculate_clinical_score(ev)
             needs_revision == clinical_score < 70
         IN  [ clinical_feedback |-> <<feedback_entry("clinical_critic")>>,
               clinical_score |-> clinical_score,
               debate_history |-> <<create_debate_entry(st, "clinical_critic",
                                      IF needs_revision THEN "critique" ELSE "agreement")>>,
               messages |-> <<message("clinical_critic")>> ]
             @@ add_note(st, "clinical_critic")

-----------------------------------------------------------------------------
(* agents/empathy.py *)

\* warmth, accessibility, safety_language, cultural_sensitivity (0..10);
\* the second is the fallback of _parse_evaluation.
EmpathyEvaluations == { <<0, 0, 0, 0>>, <<6, 6, 7, 7>> }

\* EmpathyAgent._parse_evaluation: the parsed object, or the fallback
\* structure after json.JSONDecodeError, which is only written to the
\* logger.
empathy_parse_evaluation(response) ==
    IF response.json THEN response.value ELSE <<6, 6, 7, 7>>

\* overall = 0.30 w + 0.30 a + 0.25 s + 0.15 c, rounded to one decimal;
\* in tenths, and exact for the evaluations above.
_calculate_empathy_overall(ev) ==
    (30 * ev[1] + 30 * ev[2] + 25 * ev[3] + 15 * ev[4]) \div 10

empathy_process(ev, st) ==
    IF st.current_draft = ""
    THEN [ errors |-> <<"No draft">>,
           messages |-> <<message("empathy")>> ]
    ELSE LET overall == _calculate_empathy_overall(ev)
         IN  [ empathy_scores |-> [overall |-> overall],
               clinical_feedback |-> <<feedback_entry("empathy")>>,
               debate_history |-> <<create_debate_entry(st, "empathy",
                                      IF overall < 70 THEN "critique" ELSE "agreement")>>,
               messages |-> <<message("empathy")>> ]
             @@ add_note(st, "empathy")

-----------------------------------------------------------------------------
(* core/graph.py: the graph *)

GraphNodes == {"supervisor", "drafting", "clinical_critic", "safety_guardian",
               "empathy", "human_review", "finalize"}

AgentNodes == {"drafting", "clinical_critic", "safety_guardian", "empathy"}

\* A graph compiled without an interrupt point.
interrupt_nowhere == {}

\* compile_graph(interrupt_before=["human_review"])
interrupt_before == {"human_review"}

human_review_node(st) ==
    [ approval_status |-> PENDING_HUMAN_REVIEW,
      active_agent |-> "human_review",
      messages |-> <<message("system")>> ]

finalize_node(st) ==
    [ approval_status |-> APPROVED,
      active_agent |-> "complete",
      messages |-> <<message("system")>> ]

route_map(next_agent) ==
    CASE next_agent = "drafting" -> "drafting"
      [] next_agent = "clinical_critic" -> "clinical_critic"
      [] next_agent = "safety_guardian" -> "safety_guardian"
      [] next_agent = "empathy" -> "empathy"
      [] next_agent = "human_review" -> "human_review"
      [] next_agent = "complete" -> "finalize"
      [] next_agent = "terminate" -> END
      [] OTHER -> "drafting"

route_from_supervisor(st) ==
    IF st.supervisor_decisions = <<>>
    THEN IF st.current_draft = "" THEN "drafting" ELSE "clinical_critic"
    ELSE route_map(Last(st.supervisor_decisions).next_agent)

route_after_human_review(st) ==
    IF st.approval_status = APPROVED THEN "finalize"
    ELSE IF st.approval_status = REJECTED THEN END
    ELSE IF st.approval_status = HUMAN_EDITING THEN "supervisor"
    ELSE "supervisor"

\* A guard whose valve opens one iteration later.
should_continue_wide_margin(st) ==
    IF st.approval_status = APPROVED THEN END
    ELSE IF st.approval_status = REJECTED THEN END
    ELSE IF st.iteration_count > st.max_iterations + safety_margin + 1 THEN END
    ELSE "supervisor"

should_continue_to_supervisor(st) ==
    IF st.approval_status = APPROVED THEN END
    ELSE IF st.approval_status = REJECTED THEN END
    ELSE IF st.iteration_count > st.max_iterations + safety_margin THEN END
    ELSE "supervisor"

\* build_cerina_graph: the edge that leaves each node.
Edge(node, st) ==
    CASE node = "supervisor" -> route_from_supervisor(st)
      [] node \in AgentNodes -> should_continue_to_supervisor(st)
      [] node = "human_review" -> route_after_human_review(st)
      [] node = "finalize" -> END

\* One step of graph.stream: the node's delta goes through the reducers,
\* the state is persisted, the node's edge names the next node, and the run
\* stops at END or pauses before a node of interrupt_before.
\* The keys of the returned dict that the model follows: the lists that
\* are not cut to their tail, and the scalars a human decision writes.
ReturnedFields == {"draft_versions", "safety_flags", "errors",
                   "approval_status", "current_draft"}

\* The part of a state dict under these keys.
Returned(st) == [f \in ReturnedFields |-> st[f]]

\* final_state = {**final_state, **node_output}: every key of the node's
\* output replaces the value the dict had.
Overwrite(dict, node_output) ==
    [ f \in DOMAIN dict |-> IF f \in DOMAIN node_output THEN node_output[f] ELSE dict[f] ]

StepTo(node, node_output, st) ==
    LET nxt == Edge(node, st)
    IN  /\ state' = st
        /\ final_state' = Overwrite(final_state, node_output)
        /\ IF node = "supervisor" THEN TRUE ELSE advisory' = NoSuggestion
        /\ next' = nxt
        /\ run' = IF nxt = END THEN "done"
                  ELSE IF nxt \in interrupt_before THEN "interrupted"
                  ELSE "running"
        /\ executed' = node
        /\ decision' = IF node = "human_review" THEN decision ELSE NoDecision
        /\ UNCHANGED human_approved
        /\ UNCHANGED <<store_vars, merge_vars>>

Step(node, delta) == StepTo(node, delta, Merge(state, delta))

\* The content the generation capability may return in this state.
DraftContents(st) ==
    IF Len(st.draft_versions) < MaxDrafts THEN LLMContent ELSE LLMContent \ {""}

\* Whether the step that runs in this state may raise.
MayFail(st) == Len(st.errors) < MaxErrors

\* The edits a human decision may carry in this state.
EditChoices(st) ==
    IF Len(st.draft_versions) < MaxDrafts THEN HumanEdits \cup {NoEdits} ELSE {NoEdits}

-----------------------------------------------------------------------------
(* Actions *)

\* The callers that reach one thread: the HTTP API and the MCP server.
Callers == {"api", "mcp"}

\* A config without checkpoint_id (config.get(...) is None).
NoCheckpoint == 0

WorkflowInit ==
    /\ state = create_initial_state
    /\ next = "none"
    /\ run = "idle"
    /\ executed = "none"
    /\ decision = NoDecision
    /\ final_state = Returned(state)
    /\ advisory = NoSuggestion
    /\ human_approved = FALSE

StoreInit ==
    /\ checkpoints = <<>>
    /\ protocols = {}
    /\ config = [c \in Callers |-> NoCheckpoint]
    /\ pc = [c \in Callers |-> "idle"]
    /\ completed_steps = 0

\* No delta is waiting to be applied.
NoPending == [start |-> create_initial_state, deltas |-> <<>>, applied |-> 0]

Init == WorkflowInit /\ StoreInit /\ pending = NoPending

\* CerinaWorkflow.create_protocol: the run starts at the entry point.
CreateProtocol ==
    /\ run = "idle"
    /\ state' = create_initial_state
    /\ next' = "supervisor"
    /\ run' = "running"
    /\ executed' = "create"
    /\ final_state' = Returned(create_initial_state)
    /\ advisory' = NoSuggestion
    /\ UNCHANGED <<decision, human_approved>>
    /\ UNCHANGED <<store_vars, merge_vars>>

SupervisorNode ==
    /\ run = "running" /\ next = "supervisor"
    /\ \/ \E s \in Suggestions :
            /\ Step("supervisor", invoke_ok("supervisor", supervisor_process(s, state)))
            /\ advisory' = s
       \/ /\ MayFail(state)
          /\ Step("supervisor", invoke_error("supervisor"))
          /\ advisory' = NoSuggestion

DraftingNode ==
    /\ run = "running" /\ next = "drafting"
    /\ \/ \E c \in DraftContents(state) :
            Step("drafting", invoke_ok("drafting", drafting_process(c, state)))
       \/ MayFail(state) /\ Step("drafting", invoke_error("drafting"))

ClinicalCriticNode ==
    /\ run = "running" /\ next = "clinical_critic"
    /\ \/ \E response \in Responses(ClinicalEvaluations) :
            Step("clinical_critic",
                 invoke_ok("clinical_critic",
                           clinical_process(clinical_parse_evaluation(response), state)))
       \/ MayFail(state) /\ Step("clinical_critic", invoke_error("clinical_critic"))

SafetyGuardianNode ==
    /\ run = "running" /\ next = "safety_guardian"
    /\ \/ \E response \in Responses(SafetyReviews(state)) :
            Step("safety_guardian",
                 invoke_ok("safety_guardian",
                           safety_process(_parse_safety_review(response), state)))
       \/ MayFail(state) /\ Step("safety_guardian", invoke_error("safety_guardian"))

EmpathyNode ==
    /\ run = "running" /\ next = "empathy"
    /\ \/ \E response \in Responses(EmpathyEvaluations) :
            Step("empathy",
                 invoke_ok("empathy",
                           empathy_process(empathy_parse_evaluation(response), state)))
       \/ MayFail(state) /\ Step("empathy", invoke_error("empathy"))

HumanReviewNode ==
    /\ run = "running" /\ next = "human_review"
    /\ Step("human_review", human_review_node(state))

FinalizeNode ==
    /\ run = "running" /\ next = "finalize"
    /\ Step("finalize", finalize_node(state))

\* Updates that mark every decision without approval as rejected.
resume_updates_rejecting(approved, feedback, edits, st) ==
    LET human_version == [ version |-> Len(st.draft_versions) + 1,
                           content |-> edits, agent |-> "human" ]
        status == IF approved THEN APPROVED ELSE REJECTED
    IN  IF edits # NoEdits
        THEN [ approval_status |-> status, human_feedback |-> feedback,
               current_draft |-> edits, draft_versions |-> <<human_version>> ]
        ELSE [ approval_status |-> status, human_feedback |-> feedback ]

\* Updates that number the human version with the current length.
resume_updates_same_version(approved, feedback, edits, st) ==
    LET human_version == [ version |-> Len(st.draft_versions),
                           content |-> edits, agent |-> "human" ]
        status == IF approved THEN APPROVED
                  ELSE IF edits # NoEdits THEN HUMAN_EDITING ELSE IN_REVIEW
    IN  IF edits # NoEdits
        THEN [ approval_status |-> status, human_feedback |-> feedback,
               current_draft |-> edits, draft_versions |-> <<human_version>> ]
        ELSE [ approval_status |-> status, human_feedback |-> feedback ]

\* Updates that replace the draft without recording a version.
resume_updates_without_version(approved, feedback, edits, st) ==
    LET status == IF approved THEN APPROVED
                  ELSE IF edits # NoEdits THEN HUMAN_EDITING ELSE IN_REVIEW
    IN  IF edits # NoEdits
        THEN [ approval_status |-> status, human_feedback |-> feedback,
               current_draft |-> edits ]
        ELSE [ approval_status |-> status, human_feedback |-> feedback ]

\* CerinaWorkflow.resume_after_approval up to update_state: the updates of
\* the decision.
resume_updates(approved, feedback, edits, st) ==
    LET human_version == [ version |-> Len(st.draft_versions) + 1,
                           content |-> edits, agent |-> "human" ]
        status == IF approved THEN APPROVED
                  ELSE IF edits # NoEdits THEN HUMAN_EDITING ELSE IN_REVIEW
    IN  IF edits # NoEdits
        THEN [ approval_status |-> status, human_feedback |-> feedback,
               current_draft |-> edits, draft_versions |-> <<human_version>> ]
        ELSE [ approval_status |-> status, human_feedback |-> feedback ]

\* approve_protocol (api/routes.py) and handle_approve_protocol
\* (mcp/server.py): a decision is accepted only for a session whose status
\* is pending_human_review; resume_after_approval then writes the updates as
\* the node that ran last (graph.update_state) and resumes the run with
\* graph.stream(None), which goes past the interrupt it was paused at.
ApproveProtocol(approved, feedback, edits) ==
    /\ run \in {"interrupted", "done"}
    /\ state.approval_status = PENDING_HUMAN_REVIEW
    /\ LET st == Merge(state, resume_updates(approved, feedback, edits, state))
           nxt == Edge(executed, st)
       IN  /\ state' = st
           /\ next' = nxt
           /\ run' = IF nxt = END THEN "done" ELSE "running"
    /\ executed' = "human_decision"
    /\ decision' = [approved |-> approved, edits |-> edits]
    /\ final_state' = Returned(state)
    /\ advisory' = NoSuggestion
    /\ human_approved' = (human_approved \/ approved)
    /\ UNCHANGED <<store_vars, merge_vars>>

HumanDecision ==
    \E approved \in BOOLEAN : \E feedback \in Feedbacks : \E edits \in EditChoices(state) :
        ApproveProtocol(approved, feedback, edits)

GraphStep ==
    \/ SupervisorNode
    \/ DraftingNode
    \/ ClinicalCriticNode
    \/ SafetyGuardianNode
    \/ EmpathyNode
    \/ HumanReviewNode
    \/ FinalizeNode

Next ==
    \/ CreateProtocol
    \/ GraphStep
    \/ HumanDecision

Spec == Init /\ [][Next]_vars

\* A running graph keeps executing nodes; a human may never decide.
FairSpec == Spec /\ WF_vars(GraphStep)

-----------------------------------------------------------------------------
(* A run that dies between two steps, and the way back into it *)

\* The process dies while graph.stream is between two steps: the state and
\* the next node are those of the checkpoint written last.
Crash ==
    /\ run = "running"
    /\ run' = "crashed"
    /\ UNCHANGED <<state, next, executed, decision, advisory, final_state, human_approved>>
    /\ UNCHANGED <<store_vars, merge_vars>>

\* The one entry that takes up a thread again is resume_after_approval,
\* behind the callers' check that the session is pending human review: the
\* decision's updates are written as the node that ran last, and
\* graph.stream(None) goes on from there.
ResumeCrashed ==
    /\ run = "crashed"
    /\ state.approval_status = PENDING_HUMAN_REVIEW
    /\ \E approved \in BOOLEAN : \E feedback \in Feedbacks :
       \E edits \in EditChoices(state) :
          LET st == Merge(state, resume_updates(approved, feedback, edits, state))
              nxt == Edge(executed, st)
          IN  /\ state' = st
              /\ next' = nxt
              /\ run' = IF nxt = END THEN "done" ELSE "running"
              /\ executed' = "human_decision"
              /\ decision' = [approved |-> approved, edits |-> edits]
              /\ final_state' = Returned(state)
              /\ advisory' = NoSuggestion
              /\ human_approved' = (human_approved \/ approved)
    /\ UNCHANGED <<store_vars, merge_vars>>

CrashNext == Next \/ Crash \/ ResumeCrashed

CrashSpec == Init /\ [][CrashNext]_vars

\* Deterministic capabilities: what the advisory, the generation and the
\* three evaluators answer, the same at every call.
Oracles ==
    [ suggestion : {"human_review", "drafting"},
      content : {"llm_text"},
      clinical : ClinicalEvaluations,
      review : {[safety_score |-> 100, flags |-> <<>>]},
      empathy : {<<6, 6, 7, 7>>} ]

\* The delta of a node whose capability answers as the oracle says.
NodeDelta(node, st, o) ==
    CASE node = "supervisor" ->
            invoke_ok("supervisor", supervisor_process(o.suggestion, st))
      [] node = "drafting" ->
            invoke_ok("drafting", drafting_process(o.content, st))
      [] node = "clinical_critic" ->
            invoke_ok("clinical_critic", clinical_process(o.clinical, st))
      [] node = "safety_guardian" ->
            invoke_ok("safety_guardian", safety_process(o.review, st))
      [] node = "empathy" ->
            invoke_ok("empathy", empathy_process(o.empathy, st))
      [] node = "human_review" -> human_review_node(st)
      [] node = "finalize" -> finalize_node(st)

\* graph.stream from a checkpoint with next node `node` to the end of the
\* run (END, or the pause before a node of interrupt_before): the final
\* approval_status and current_draft, "unfinished" after MaxRun steps.
RECURSIVE RunToEnd(_, _, _, _)
RunToEnd(st, node, o, fuel) ==
    IF node = END
    THEN [approval_status |-> st.approval_status, current_draft |-> st.current_draft]
    ELSE IF fuel = 0
    THEN [approval_status |-> "unfinished", current_draft |-> ""]
    ELSE LET st2 == Merge(st, NodeDelta(node, st, o))
             nxt == Edge(node, st2)
         IN  IF nxt \in interrupt_before
             THEN [approval_status |-> st2.approval_status,
                   current_draft |-> st2.current_draft]
             ELSE RunToEnd(st2, nxt, o, fuel - 1)

-----------------------------------------------------------------------------
(* models/state.py: the channel update, applied to deltas of the program *)

\* A node that returns nothing.
NoOp == [f \in {} |-> 0]

\* Sessions before and after a first draft.
Sessions ==
    { create_initial_state,
      Apply(create_initial_state,
            invoke_ok("drafting", drafting_process("llm_text", create_initial_state))) }

\* Deltas as the nodes and resume_after_approval return them for session st.
Deltas(st) ==
    { NoOp,
      invoke_error("drafting"),
      invoke_ok("drafting", drafting_process("llm_text", st)),
      invoke_ok("clinical_critic", clinical_process(<<6, 6, 7, 7>>, st)),
      human_review_node(st),
      resume_updates(FALSE, "feedback", "human_text", st) }

MergeInit ==
    /\ state \in Sessions
    /\ \E D1 \in Deltas(state) : \E D2 \in Deltas(Apply(state, D1)) \cup Deltas(state) :
          pending = [start |-> state, deltas |-> <<D1, D2>>, applied |-> 0]
    /\ next = "none"
    /\ run = "idle"
    /\ executed = "none"
    /\ decision = NoDecision
    /\ final_state = Returned(state)
    /\ advisory = NoSuggestion
    /\ human_approved = FALSE
    /\ StoreInit

\* The graph applies the next delta to the channels of the session.
ApplyDelta ==
    /\ pending.applied < Len(pending.deltas)
    /\ state' = Apply(state, pending.deltas[pending.applied + 1])
    /\ pending' = [pending EXCEPT !.applied = @ + 1]
    /\ UNCHANGED <<next, run, executed, decision, advisory, final_state, human_approved>>
    /\ UNCHANGED store_vars

MergeSpec == MergeInit /\ [][ApplyDelta]_vars

-----------------------------------------------------------------------------
(* agents/supervisor.py: the routing policy, applied to sessions of every
   combination of draft, flags, scores and iteration count *)

\* The flags a session may carry: none, or one unresolved flag.
PolicyFlags ==
    { <<>> } \cup
    { <<[severity |-> sev, resolved |-> FALSE]>> : sev \in {"critical", "high"} }

\* Scores below, at and above the thresholds of the settings.
PolicySafetyScores == {0, min_safety_score, initial_safety_score}
PolicyClinicalScores == {0, min_clinical_score, 640}
PolicyEmpathyScores == {0, min_empathy_score, 65}
PolicyIterations ==
    {0, max_iterations_default - 1, max_iterations_default, max_iterations_default + 1}

\* The sessions the supervisor may be called with.
PolicySessions ==
    { [create_initial_state EXCEPT
          !.current_draft = draft,
          !.draft_versions = IF draft = "" THEN <<>>
                             ELSE <<[version |-> 1, content |-> draft, agent |-> "drafting"]>>,
          !.safety_flags = flags,
          !.safety_score = safety,
          !.clinical_score = clinical,
          !.empathy_scores = [overall |-> empathy],
          !.iteration_count = iteration,
          !.approval_status = IF draft = "" THEN DRAFTING ELSE IN_REVIEW] :
        draft \in LLMContent, flags \in PolicyFlags,
        safety \in PolicySafetyScores, clinical \in PolicyClinicalScores,
        empathy \in PolicyEmpathyScores, iteration \in PolicyIterations }

PolicyInit ==
    /\ state \in PolicySessions
    /\ next = "supervisor"
    /\ run = "running"
    /\ executed = "create"
    /\ decision = NoDecision
    /\ final_state = Returned(state)
    /\ advisory = NoSuggestion
    /\ human_approved = FALSE
    /\ StoreInit
    /\ pending = NoPending

PolicySpec == PolicyInit /\ [][SupervisorNode]_vars

-----------------------------------------------------------------------------
(* A run in which the drafting step raises on every invocation *)

\* The errors list as the model retains it: its latest MaxErrors entries.
RetainErrors(st) ==
    [st EXCEPT !.errors = IF Len(@) > MaxErrors
                          THEN SubSeq(@, Len(@) - MaxErrors + 1, Len(@)) ELSE @]

\* BaseAgent.invoke of the drafting agent when process() raises, as it does
\* on every invocation of this run.
DraftingAlwaysFails ==
    /\ run = "running" /\ next = "drafting"
    /\ StepTo("drafting", invoke_error("drafting"),
              RetainErrors(Merge(state, invoke_error("drafting"))))

FailNext ==
    \/ SupervisorNode
    \/ DraftingAlwaysFails
    \/ ClinicalCriticNode
    \/ SafetyGuardianNode
    \/ EmpathyNode

\* The sessions of the run: those of PolicyInit before their first counted
\* iteration and without safety flag.
FailInit ==
    /\ PolicyInit
    /\ state.iteration_count = 0
    /\ state.safety_flags = <<>>

\* graph.stream keeps executing nodes until END or the interrupt.
FailSpec == FailInit /\ [][FailNext]_vars /\ WF_vars(FailNext)

-----------------------------------------------------------------------------
(* core/checkpointer.py, and the calls that reach it *)

\* The checkpoints table holds the records of all threads in the order in
\* which they were put; a record is [thread_id, checkpoint_id,
\* parent_checkpoint_id, source, checkpoint_data, created_at], the data
\* being the persisted approval_status and created_at the value of
\* datetime.utcnow when the record was built.

\* The thread the callers work on, and another session's thread.
thread_id == "t1"
other_thread == "t2"

\* The thread_id of the initial state that the create_protocol route builds
\* and answers with, and the thread_id of the row that the background task
\* creates (thread_id or "" with thread_id = None).
response_thread == "t0"
empty_thread == ""

\* The thread_id in the answer of the start operation: the API route
\* answers with the initial state it built itself, handle_create_protocol
\* with the thread_id that CerinaWorkflow.create_protocol returns.
create_protocol_response(c) == IF c = "api" THEN response_thread ELSE thread_id

\* The rows of the protocols table a start creates: one in the API route
\* and one in its background task run_workflow_with_updates, none by the
\* MCP tool.
create_protocol_rows(c) == IF c = "api" THEN {response_thread, empty_thread} ELSE {}

\* .filter(CheckpointDB.thread_id == thread_id).order_by(created_at)
ThreadTable(table, thread) == SelectSeq(table, LAMBDA r : r.thread_id = thread)

\* The greatest created_at of the table: the clock's latest reading.
Clock(table) ==
    IF table = <<>> THEN 0
    ELSE CHOOSE t \in { table[i].created_at : i \in DOMAIN table } :
            \A i \in DOMAIN table : table[i].created_at <= t

\* The checkpoints that carry the created_at of the checkpoint put before.
Ties(table) ==
    Cardinality({ i \in DOMAIN table :
                    i > 1 /\ table[i].created_at = table[i - 1].created_at })

\* datetime.utcnow at a put: later than every created_at of the table, or
\* the reading of the put before when the clock has not advanced.
Now(table) ==
    { Clock(table) + 1 }
    \cup IF table # <<>> /\ Ties(table) < MaxTies THEN { Clock(table) } ELSE {}

\* .order_by(CheckpointDB.created_at.desc()).first(): a record with the
\* greatest created_at; which one of several is for the database to choose.
first_by_created_at_desc(table) ==
    { r \in { table[i] : i \in DOMAIN table } : r.created_at = Clock(table) }

\* CerinaCheckpointer.get_tuple for a config without checkpoint_id: the
\* records the query may return, none for a thread without records.
get_tuple(table) == first_by_created_at_desc(table)

\* CerinaCheckpointer.get_latest_checkpoint_id: the checkpoint_ids the query
\* may return, None for a thread without records.
get_latest_checkpoint_id(table) ==
    IF table = <<>> THEN {NoCheckpoint}
    ELSE { r.checkpoint_id : r \in first_by_created_at_desc(table) }

\* The limit argument of list when the caller gives none.
NoLimit == -1

\* query.order_by(CheckpointDB.created_at.desc()).all() over the rows of
\* the table at these positions: the sequences of the rows in descending
\* created_at; the order of rows with one created_at is for the database
\* to choose.
RECURSIVE order_by_created_at_desc(_, _)
order_by_created_at_desc(table, rows) ==
    IF rows = {} THEN { <<>> }
    ELSE UNION { { <<table[i]>> \o rest :
                     rest \in order_by_created_at_desc(table, rows \ {i}) } :
                 i \in { i \in rows :
                           \A j \in rows : table[j].created_at <= table[i].created_at } }

\* CerinaCheckpointer.list(config, before=, limit=): the sequences the call
\* may yield.  The rows of the thread; with a before whose checkpoint_id is
\* a record of the thread, those with a smaller created_at; in descending
\* created_at; cut to limit when limit is truthy (neither None nor 0).
list(table, thread, before, limit) ==
    LET found == { i \in DOMAIN table :
                     table[i].thread_id = thread /\ table[i].checkpoint_id = before }
        rows == { i \in DOMAIN table :
                    /\ table[i].thread_id = thread
                    /\ \A b \in found : table[i].created_at < table[b].created_at }
    IN  { IF limit # NoLimit /\ limit # 0 /\ Len(all) > limit
          THEN SubSeq(all, 1, limit) ELSE all :
          all \in order_by_created_at_desc(table, rows) }

\* A put that writes over the thread's latest record when there is one.
put_over_latest(table, thread, parent_checkpoint_id, source, checkpoint_data, now) ==
    LET record == [ thread_id |-> thread,
                    checkpoint_id |-> Len(table) + 1,
                    parent_checkpoint_id |-> parent_checkpoint_id,
                    source |-> source,
                    checkpoint_data |-> checkpoint_data,
                    created_at |-> now ]
        own == { i \in DOMAIN table : table[i].thread_id = thread }
    IN  IF own = {} THEN Append(table, record)
        ELSE [table EXCEPT ![CHOOSE i \in own : \A j \in own : j <= i] = record]

\* CerinaCheckpointer.put: always a new record, with a fresh checkpoint_id
\* and the checkpoint_id of the caller's config as parent.
put(table, thread, parent_checkpoint_id, source, checkpoint_data, now) ==
    Append(table, [ thread_id |-> thread,
                    checkpoint_id |-> Len(table) + 1,
                    parent_checkpoint_id |-> parent_checkpoint_id,
                    source |-> source,
                    checkpoint_data |-> checkpoint_data,
                    created_at |-> now ])

\* What a node's step leaves as approval_status, and whether the run goes
\* on, pauses before human_review or ends.
StepOutcomes ==
    { [approval_status |-> IN_REVIEW, then |-> "streaming"],
      [approval_status |-> PENDING_HUMAN_REVIEW, then |-> "idle"],
      [approval_status |-> APPROVED, then |-> "idle"],
      [approval_status |-> REJECTED, then |-> "idle"] }

\* What resume_after_approval writes as approval_status.
DecisionStatuses == {APPROVED, HUMAN_EDITING, IN_REVIEW}

\* Where a caller stands between two requests: before its first, after a
\* request that returned, after one that raised, after one that was
\* answered "not found", after a decision that was rejected.
Ready == {"idle", "failed", "not_found", "rejected"}

\* Persist: put with the caller's config, which then carries the new id.
Persist(c, source, checkpoint_data) ==
    /\ Len(checkpoints) < MaxCheckpoints
    /\ \E now \in Now(checkpoints) :
          checkpoints' = put(checkpoints, thread_id, config[c], source,
                             checkpoint_data, now)
    /\ config' = [config EXCEPT ![c] = Last(checkpoints').checkpoint_id]

\* The start operation.  CerinaWorkflow.create_protocol is called without
\* a usable thread_id (the MCP tool passes none, the background task of the
\* API route passes ""), so create_initial_state draws the thread_id of the
\* run; graph.stream(initial_state) on a thread without checkpoints
\* persists the input and starts the loop.  The rows of the protocols table
\* are those of the API route and of its background task.
StartRun(c) ==
    /\ ThreadTable(checkpoints, thread_id) = <<>> /\ pc[c] \in Ready
    /\ Persist(c, "input", DRAFTING)
    /\ protocols' = protocols \cup create_protocol_rows(c)
    /\ pc' = [pc EXCEPT ![c] = "streaming"]
    /\ UNCHANGED completed_steps
    /\ UNCHANGED <<workflow_vars, merge_vars>>

\* One superstep of graph.stream: a node runs and the state is persisted.
RunStep(c) ==
    /\ pc[c] = "streaming"
    /\ \E o \in StepOutcomes :
          /\ Persist(c, "loop", o.approval_status)
          /\ pc' = [pc EXCEPT ![c] = o.then]
    /\ completed_steps' = completed_steps + 1
    /\ UNCHANGED protocols
    /\ UNCHANGED <<workflow_vars, merge_vars>>

\* approve_protocol / handle_approve_protocol: get_state and the check that
\* the session is pending human review.
CheckPending(c) ==
    /\ pc[c] \in Ready
    /\ ThreadTable(checkpoints, thread_id) # <<>>
    /\ \E tuple \in get_tuple(ThreadTable(checkpoints, thread_id)) :
          tuple.checkpoint_data = PENDING_HUMAN_REVIEW
    /\ pc' = [pc EXCEPT ![c] = "accepted"]
    /\ UNCHANGED <<checkpoints, protocols, config, completed_steps>>
    /\ UNCHANGED <<workflow_vars, merge_vars>>

\* approve_protocol / handle_approve_protocol for a session that get_state
\* shows with another status: HTTP 400 or the text "Protocol is not pending
\* review", and nothing is written.
RejectDecision(c) ==
    /\ pc[c] \in Ready
    /\ ThreadTable(checkpoints, thread_id) # <<>>
    /\ \E tuple \in get_tuple(ThreadTable(checkpoints, thread_id)) :
          tuple.checkpoint_data # PENDING_HUMAN_REVIEW
    /\ pc' = [pc EXCEPT ![c] = "rejected"]
    /\ UNCHANGED <<checkpoints, protocols, config, completed_steps>>
    /\ UNCHANGED <<workflow_vars, merge_vars>>

\* CerinaWorkflow.get_state when the read of the checkpoint raises: the
\* exception is logged and None is returned, which the callers answer with
\* "not found".
GetStateFails(c) ==
    /\ pc[c] \in Ready
    /\ ThreadTable(checkpoints, thread_id) # <<>>
    /\ pc' = [pc EXCEPT ![c] = "not_found"]
    /\ UNCHANGED <<checkpoints, protocols, config, completed_steps>>
    /\ UNCHANGED <<workflow_vars, merge_vars>>

\* CerinaWorkflow.get_state for a thread without checkpoints: the snapshot
\* has no values and the callers answer "not found".
GetStateNotFound(c) ==
    /\ pc[c] \in Ready
    /\ ThreadTable(checkpoints, thread_id) = <<>>
    /\ pc' = [pc EXCEPT ![c] = "not_found"]
    /\ UNCHANGED <<checkpoints, protocols, config, completed_steps>>
    /\ UNCHANGED <<workflow_vars, merge_vars>>

\* resume_after_approval: graph.get_state, and the read of the latest
\* checkpoint with which graph.update_state begins.
UpdateLoad(c) ==
    /\ pc[c] = "accepted"
    /\ \E id \in get_latest_checkpoint_id(ThreadTable(checkpoints, thread_id)) :
          config' = [config EXCEPT ![c] = id]
    /\ pc' = [pc EXCEPT ![c] = "updating"]
    /\ UNCHANGED <<checkpoints, protocols, completed_steps>>
    /\ UNCHANGED <<workflow_vars, merge_vars>>

\* graph.update_state: the updates are persisted as a child of the
\* checkpoint that was read.
UpdatePut(c) ==
    /\ pc[c] = "updating"
    /\ \E st \in DecisionStatuses : Persist(c, "update", st)
    /\ pc' = [pc EXCEPT ![c] = "resuming"]
    /\ completed_steps' = completed_steps + 1
    /\ UNCHANGED protocols
    /\ UNCHANGED <<workflow_vars, merge_vars>>

\* graph.stream(None): the run is loaded from the latest checkpoint.
ResumeLoad(c) ==
    /\ pc[c] = "resuming"
    /\ \E id \in get_latest_checkpoint_id(ThreadTable(checkpoints, thread_id)) :
          config' = [config EXCEPT ![c] = id]
    /\ pc' = [pc EXCEPT ![c] = "resumed"]
    /\ UNCHANGED <<checkpoints, protocols, completed_steps>>
    /\ UNCHANGED <<workflow_vars, merge_vars>>

\* The first superstep of the resumed stream runs human_review_node.
HumanReviewStep(c) ==
    /\ pc[c] = "resumed"
    /\ Persist(c, "loop", PENDING_HUMAN_REVIEW)
    /\ pc' = [pc EXCEPT ![c] = "streaming"]
    /\ completed_steps' = completed_steps + 1
    /\ UNCHANGED protocols
    /\ UNCHANGED <<workflow_vars, merge_vars>>

\* put raises (db.add / db.commit fail): get_db_session rolls back and
\* re-raises, the exception leaves graph.stream or graph.update_state and
\* ends the caller's invocation.
PutFails(c) ==
    /\ pc[c] \in {"streaming", "updating", "resumed"}
    /\ pc' = [pc EXCEPT ![c] = "failed"]
    /\ UNCHANGED <<checkpoints, protocols, config, completed_steps>>
    /\ UNCHANGED <<workflow_vars, merge_vars>>

\* A run of another session, started with the MCP tool, persists its input
\* or a step.
OtherThreadStep ==
    /\ Len(checkpoints) < MaxCheckpoints
    /\ Len(ThreadTable(checkpoints, other_thread)) < MaxOther
    /\ LET own == ThreadTable(checkpoints, other_thread)
       IN  \E id \in get_latest_checkpoint_id(own) :
                 checkpoints' = put(checkpoints, other_thread, id,
                                    IF own = <<>> THEN "input" ELSE "loop",
                                    IF own = <<>> THEN DRAFTING ELSE PENDING_HUMAN_REVIEW,
                                    Clock(checkpoints) + 1)
    /\ UNCHANGED <<protocols, config, pc, completed_steps>>
    /\ UNCHANGED <<workflow_vars, merge_vars>>

\* delete_protocol (api/routes.py): 404 without a row of the protocols
\* table; otherwise ProtocolRepository.delete removes the row.  The route
\* does not call CerinaCheckpointer.delete_thread, and the checkpoints
\* table has no foreign key to the protocols table.
DeleteProtocol(thread) ==
    /\ thread \in protocols
    /\ protocols' = protocols \ {thread}
    /\ UNCHANGED <<checkpoints, config, pc, completed_steps>>
    /\ UNCHANGED <<workflow_vars, merge_vars>>

StoreNext ==
    \/ \E c \in Callers : StartRun(c)
    \/ \E c \in Callers : RunStep(c)
    \/ \E c \in Callers : CheckPending(c)
    \/ \E c \in Callers : RejectDecision(c)
    \/ \E c \in Callers : GetStateFails(c)
    \/ \E c \in Callers : GetStateNotFound(c)
    \/ \E c \in Callers : UpdateLoad(c)
    \/ \E c \in Callers : UpdatePut(c)
    \/ \E c \in Callers : ResumeLoad(c)
    \/ \E c \in Callers : HumanReviewStep(c)
    \/ \E c \in Callers : PutFails(c)
    \/ OtherThreadStep
    \/ \E thread \in {response_thread, thread_id, other_thread} : DeleteProtocol(thread)

StoreSpec == Init /\ [][StoreNext]_vars

-----------------------------------------------------------------------------
(* Properties *)

\* The supervisor is about to run on the current state.
AtSupervisor == run = "running" /\ next = "supervisor"

\* The readiness thresholds: the three minimum scores are met and no
\* unresolved flag of severity critical or high exists.
ThresholdsMet ==
    /\ state.safety_score >= min_safety_score
    /\ state.clinical_score >= min_clinical_score
    /\ state.empathy_scores.overall >= min_empathy_score
    /\ \A i \in 1..Len(state.safety_flags) :
          state.safety_flags[i].resolved
          \/ state.safety_flags[i].severity \notin {"critical", "high"}

\* C1: whenever the session state holds an unresolved critical safety flag,
\* the routing policy's actual next step is drafting for every advisory
\* suggestion (valid or not) and every iteration_count.
C1_CriticalFlagForcesDrafting ==
    (AtSupervisor /\ Unresolved(state, {"critical"}) # {})
        => \A s \in Suggestions : _apply_decision(s, state)[1] = "drafting"

\* C2: every run that was started eventually reaches END (directly or
\* through finalize) or pauses at the human_review interrupt, whatever the
\* advisory suggests.
C2_EventuallyStops == (run = "running") ~> (run \in {"done", "interrupted"})

\* C3 as stated: while a run has reached neither END nor the interrupt,
\* iteration_count <= max_iterations + 2.
C3_WithinSafetyMargin ==
    run = "running" => state.iteration_count <= state.max_iterations + safety_margin

\* C3, amended: in every state of a session iteration_count is at most
\* max_iterations + 3: the guard lets the count pass max_iterations + 2 once,
\* then ends the run.
C3_WithinSafetyMarginPlusOne ==
    state.iteration_count <= state.max_iterations + safety_margin + 1

C3_Witness ==
    /\ run = "running" /\ next = "drafting"
    /\ state.iteration_count = state.max_iterations + safety_margin + 1

\* C4: whenever the workflow routes to human_review, iteration_count >=
\* max_iterations or the readiness thresholds are all met.
C4_ReadinessGating ==
    next = "human_review"
        => (state.iteration_count >= state.max_iterations \/ ThresholdsMet)

C4_Witness ==
    /\ executed = "supervisor" /\ next = "human_review" /\ run = "interrupted"
    /\ state.iteration_count < state.max_iterations
    /\ ThresholdsMet

\* C5: finalize executes, and approval_status is approved, only after a
\* human decision with approved = true was submitted for the thread.
C5_ApprovedOnlyByHuman ==
    (executed = "finalize" \/ state.approval_status = APPROVED) => human_approved

\* C6: after a human approves without edits a session suspended at
\* human_review, approval_status is approved and the step after the
\* human_review node is finalize, not the supervisor.
C6_ApprovalFinalizes ==
    (executed = "human_review" /\ decision = [approved |-> TRUE, edits |-> NoEdits])
        => (state.approval_status = APPROVED /\ next = "finalize")

C8_EditsReenterSupervisor ==
    (executed = "human_review" /\ ~decision.approved /\ decision.edits \in HumanEdits)
        => /\ next = "supervisor"
           /\ state.approval_status = HUMAN_EDITING
           /\ state.current_draft = decision.edits

C10_EditsAppendHumanVersion ==
    [][ (executed' = "human_decision" /\ decision'.edits \in HumanEdits)
        => /\ state'.draft_versions =
                Append(state.draft_versions,
                       [ version |-> Len(state.draft_versions) + 1,
                         content |-> decision'.edits,
                         agent |-> "human" ])
           /\ state'.current_draft = decision'.edits ]_vars

C10_Witness ==
    /\ executed = "human_decision"
    /\ decision.approved /\ decision.edits \in HumanEdits
    /\ Len(state.draft_versions) = 2
    /\ Last(state.draft_versions).agent = "human"

\* The checkpoint ids met by following parent_checkpoint_id from the
\* checkpoint id, for as long as the parent is a record of the table.
RECURSIVE Chain(_, _)
Chain(table, id) ==
    IF id \notin { table[i].checkpoint_id : i \in DOMAIN table }
    THEN <<>>
    ELSE LET r == CHOOSE x \in { table[i] : i \in DOMAIN table } :
                      x.checkpoint_id = id
         IN  <<id>> \o Chain(table, r.parent_checkpoint_id)

\* C11: following parent_checkpoint_id from the latest checkpoint of the
\* thread visits every checkpoint, exactly one checkpoint has no parent (and
\* it is the first one), and the chain has one checkpoint per completed step
\* (a node's execution or a human decision) after the checkpoint of the
\* run's input.
C11_ChainIntegrity ==
    LET table == ThreadTable(checkpoints, thread_id)
    IN  table # <<>> =>
          \A id \in get_latest_checkpoint_id(table) :
            LET chain == Chain(table, id)
            IN  /\ { chain[i] : i \in DOMAIN chain }
                     = { table[i].checkpoint_id : i \in DOMAIN table }
                /\ { i \in DOMAIN table :
                       table[i].parent_checkpoint_id = NoCheckpoint } = {1}
                /\ Len(chain) = completed_steps + 1

\* C12: no two checkpoints of the thread have the same parent, whatever the
\* interleaving of the callers' reads and puts.
C12_ChainNeverForks ==
    LET table == ThreadTable(checkpoints, thread_id)
    IN  \A i, j \in DOMAIN table :
            (i # j /\ table[i].parent_checkpoint_id # NoCheckpoint)
                => table[i].parent_checkpoint_id # table[j].parent_checkpoint_id

\* C13: with deterministic outputs, a run taken up again after a crash ends
\* with the approval_status and current_draft with which the run would have
\* ended from the same checkpoint without the crash.
C13_ResumeEquivalence ==
    [][ (run = "crashed" /\ run' # "crashed")
        => \A o \in Oracles :
              RunToEnd(state', next', o, MaxRun) = RunToEnd(state, next, o, MaxRun)
      ]_vars

\* The field-wise concatenation of two deltas: a later scalar wins,
\* sequences are concatenated, the keyed notes are appended key by key.
Concatenation(D1, D2) ==
    [ f \in DOMAIN D1 \cup DOMAIN D2 |->
        IF f \notin DOMAIN D2 THEN D1[f]
        ELSE IF f \notin DOMAIN D1 THEN D2[f]
        ELSE IF f \in ListFields THEN D1[f] \o D2[f]
        ELSE IF f = "agent_notes"
             THEN [a \in DOMAIN D1[f] |-> D1[f][a] \o D2[f][a]]
        ELSE D2[f] ]

\* C14: a session to which D1 and then D2 were applied is the session to
\* which the field-wise concatenation of D1 and D2 is applied.
C14_MergeAssociativity ==
    pending.applied = 2 =>
        state = Apply(pending.start,
                      Concatenation(pending.deltas[1], pending.deltas[2]))

C16_FailedStepOnlyLogs ==
    [][ (executed' \in AgentNodes
         /\ state'.errors = Append(state.errors, "Agent error"))
        => /\ \A f \in DOMAIN state \ {"errors", "active_agent"} :
                 state'[f] = state[f]
           /\ state'.active_agent = executed'
           /\ IF state.iteration_count > state.max_iterations + safety_margin
              THEN next' = END /\ run' = "done"
              ELSE next' = "supervisor" /\ run' = "running" ]_vars

C16_Witness ==
    /\ executed = "clinical_critic"
    /\ state.errors = <<"Agent error">>
    /\ state.current_draft # ""
    /\ state.clinical_feedback = <<>>
    /\ next = "supervisor" /\ run = "running"

\* No flag of the session is both unresolved and critical.
NoCriticalFlag(st) ==
    \A i \in DOMAIN st.safety_flags :
        st.safety_flags[i].resolved \/ st.safety_flags[i].severity # "critical"

\* C17: a supervisor step on a session with a draft, without an unresolved
\* critical flag and with iteration_count >= max_iterations decides
\* (human_review, should_continue = false), whatever the advisory suggested
\* and whatever the scores are.
C17_IterationCapForcesHumanReview ==
    [][ (executed' = "supervisor" /\ state'.errors = state.errors
         /\ state.current_draft # ""
         /\ NoCriticalFlag(state)
         /\ state.iteration_count >= state.max_iterations)
        => /\ Last(state'.supervisor_decisions)
                = [next_agent |-> "human_review", should_continue |-> FALSE]
           /\ next' = "human_review" ]_vars

C17_Witness ==
    /\ executed = "supervisor"
    /\ state.current_draft # ""
    /\ state.safety_flags # <<>>
    /\ state.safety_score < min_safety_score
    /\ state.iteration_count = state.max_iterations
    /\ state.supervisor_decisions
         = <<[next_agent |-> "human_review", should_continue |-> FALSE]>>

\* The review the fixed order Safety, Clinical, Empathy names first for
\* the scores of a session; drafting when the three thresholds are met.
FirstUnmetDimension(st) ==
    IF st.safety_score < 70 THEN "safety_guardian"
    ELSE IF st.clinical_score < 60 THEN "clinical_critic"
    ELSE IF st.empathy_scores.overall < 60 THEN "empathy"
    ELSE "drafting"

\* A session with a draft, without unresolved critical flag, below the
\* iteration cap, and not ready for human review: a score is below its
\* threshold or a high flag is unresolved.
NotReadyBelowCap(st) ==
    /\ st.current_draft # ""
    /\ NoCriticalFlag(st)
    /\ st.iteration_count < st.max_iterations
    /\ \/ st.safety_score < 70
       \/ st.clinical_score < 60
       \/ st.empathy_scores.overall < 60
       \/ \E i \in DOMAIN st.safety_flags :
             (~st.safety_flags[i].resolved) /\ st.safety_flags[i].severity = "high"

\* C18: for a suggestion of human_review on such a session the policy
\* continues with the first unmet dimension in the order Safety, Clinical,
\* Empathy, and with drafting only when all three thresholds are met.
C18_NeededReviewOrder ==
    NotReadyBelowCap(state) =>
        _apply_decision("human_review", state) = <<FirstUnmetDimension(state), TRUE>>

C18_Witness ==
    /\ executed = "supervisor"
    /\ NotReadyBelowCap(state)
    /\ state.safety_score >= 70 /\ state.clinical_score < 60
    /\ state.empathy_scores.overall < 60
    /\ state.supervisor_decisions
         = <<[next_agent |-> "clinical_critic", should_continue |-> TRUE]>>

\* C19: no step, failed step or human decision lowers iteration_count or
\* raises it by more than 1, and it is raised only by a supervisor step
\* that sends a session with a non-empty current_draft to drafting.
C19_IterationCountSteps ==
    [][ /\ state'.iteration_count >= state.iteration_count
        /\ state'.iteration_count <= state.iteration_count + 1
        /\ (state'.iteration_count > state.iteration_count)
             => /\ executed' = "supervisor"
                /\ Last(state'.supervisor_decisions).next_agent = "drafting"
                /\ next' = "drafting"
                /\ state.current_draft # "" ]_vars

C19_Witness ==
    /\ executed = "supervisor"
    /\ next = "drafting"
    /\ state.current_draft # ""
    /\ state.iteration_count = 2
    /\ state.errors # <<>>
    /\ human_approved

\* C20: the versions of draft_versions are numbered 1, 2, 3, ... in the
\* order of the list, whatever drafts, revisions and human edits produced
\* them and whatever content the generation returned.
C20_DraftVersionsNumbered ==
    \A i \in DOMAIN state.draft_versions : state.draft_versions[i].version = i

\* C21: an approved session stays approved, and a session pending human
\* review goes back to drafting or in_review only by a human decision
\* with approved = false.
C21_StatusNeverRegresses ==
    [][ /\ (state.approval_status = APPROVED)
             => (state'.approval_status = APPROVED)
        /\ (state.approval_status = PENDING_HUMAN_REVIEW
            /\ state'.approval_status \in {DRAFTING, IN_REVIEW})
             => (executed' = "human_decision" /\ ~decision'.approved) ]_vars

\* C22: a run that the iteration guard ends after an agent step
\* (iteration_count > max_iterations + safety_margin) ends with the status
\* pending_human_review or rejected.
C22_ValveEndsWithTerminalStatus ==
    [][ (executed' \in AgentNodes /\ next' = END
         /\ state'.approval_status # APPROVED
         /\ state'.iteration_count > state'.max_iterations + safety_margin)
        => (run' = "done"
            /\ state'.approval_status \in {PENDING_HUMAN_REVIEW, REJECTED}) ]_vars


\* C23: put always creates a new record and never changes an existing one:
\* a step that changes the checkpoints table keeps every stored record of
\* every thread, adds exactly one record to one thread, and the new
\* checkpoint_id differs from every id stored before; a put that fails
\* leaves the table as it was.
C23_PutCreatesNewRecord ==
    [][ /\ (checkpoints' # checkpoints) =>
              /\ Len(checkpoints') = Len(checkpoints) + 1
              /\ \A i \in DOMAIN checkpoints : checkpoints'[i] = checkpoints[i]
              /\ \A i \in DOMAIN checkpoints :
                    checkpoints[i].checkpoint_id # Last(checkpoints').checkpoint_id
              /\ \A thread \in {thread_id, other_thread} :
                    Len(ThreadTable(checkpoints', thread))
                      = Len(ThreadTable(checkpoints, thread))
                        + (IF Last(checkpoints').thread_id = thread THEN 1 ELSE 0)
        /\ (\E c \in Callers : pc[c] # "failed" /\ pc'[c] = "failed")
              => checkpoints' = checkpoints ]_vars

\* Both threads hold checkpoints, and a put of a caller has failed after
\* another put of the thread succeeded.
C23_Witness ==
    /\ Len(ThreadTable(checkpoints, thread_id)) >= 3
    /\ Len(ThreadTable(checkpoints, other_thread)) >= 1
    /\ \E c \in Callers : pc[c] = "failed"
    /\ Last(checkpoints).thread_id = thread_id


\* The thread_ids a session has stored under: the one of its row and the
\* one its workflow ran under.
SessionThreads(thread) ==
    IF thread = response_thread THEN {response_thread, thread_id} ELSE {thread}

\* C24: deleting a session removes its checkpoints.  After a session is
\* deleted, no checkpoint of the session remains in the checkpoints table
\* (get_state finds nothing for it), and the checkpoints of the other
\* threads are unchanged.
C24_DeleteRemovesCheckpoints ==
    [][ \A thread \in {response_thread, thread_id, other_thread} :
          (thread \in protocols /\ thread \notin protocols')
            => /\ \A own \in SessionThreads(thread) :
                     ThreadTable(checkpoints', own) = <<>>
               /\ \A other \in {thread_id, other_thread} \ SessionThreads(thread) :
                     ThreadTable(checkpoints', other) = ThreadTable(checkpoints, other)
      ]_vars


\* The updates an evaluator's step returns when the output of its call_llm
\* cannot be parsed.
StepOnMalformedOutput(node, st) ==
    CASE node = "clinical_critic" ->
            invoke_ok(node, clinical_process(clinical_parse_evaluation(MalformedResponse), st))
      [] node = "safety_guardian" ->
            invoke_ok(node, safety_process(_parse_safety_review(MalformedResponse), st))
      [] node = "empathy" ->
            invoke_ok(node, empathy_process(empathy_parse_evaluation(MalformedResponse), st))

\* C25: when the output of an evaluator that is about to review a draft
\* cannot be parsed, the step returns the evaluator's default result, adds
\* an entry to the session's errors, and the run goes on to the supervisor.
C25_MalformedOutputIsLogged ==
    (run = "running" /\ next \in {"clinical_critic", "safety_guardian", "empathy"}
     /\ state.current_draft # "")
      => LET delta == StepOnMalformedOutput(next, state)
         IN  /\ "errors" \in DOMAIN delta
             /\ delta.errors # <<>>
             /\ Edge(next, Merge(state, delta)) = "supervisor"


\* C26: a new session whose drafting step fails on every invocation, so that
\* no draft is ever produced, still reaches END or the interrupt before
\* human_review.
C26_FailingStepDoesNotBlock ==
    (run = "running" /\ state.current_draft = "" /\ state.iteration_count = 0)
        ~> (run \in {"done", "interrupted"})


\* C27: a failed write or read of a checkpoint ends only the caller's
\* invocation and is surfaced to it: a request ends as failed with the
\* checkpoints table as it was, so that the latest checkpoint of the thread
\* is still the one persisted last, and a request is answered "not found"
\* only for a thread without checkpoints.
C27_PersistenceErrorIsSurfaced ==
    [][ \A c \in Callers :
          /\ (pc[c] # "failed" /\ pc'[c] = "failed")
                => /\ checkpoints' = checkpoints
                   /\ get_latest_checkpoint_id(ThreadTable(checkpoints', thread_id))
                        = get_latest_checkpoint_id(ThreadTable(checkpoints, thread_id))
          /\ (pc[c] # "not_found" /\ pc'[c] = "not_found")
                => ThreadTable(checkpoints, thread_id) = <<>>
      ]_vars


\* C28: of the human decisions submitted for one pause before human_review
\* at most one is applied: the thread never holds two updates of
\* resume_after_approval that follow one another with no step in between.
C28_AtMostOneDecisionApplied ==
    LET table == ThreadTable(checkpoints, thread_id)
    IN  \A i \in DOMAIN table :
            (i > 1 /\ table[i].source = "update") => table[i - 1].source # "update"


\* C29: when create_protocol or resume_after_approval returns (the run is
\* at END or paused before human_review), the state it returns equals the
\* persisted state of the session: the lists hold every item accumulated so
\* far, and approval_status and current_draft have their persisted values.
C29_ReturnedStateIsPersistedState ==
    (run \in {"done", "interrupted"}) => final_state = Returned(state)


\* C30: a supervisor step on a session without a draft routes to drafting,
\* whatever the advisory suggests and whatever the flags and the iteration
\* count are, and leaves iteration_count as it was.
C30_NoDraftRoutesToDrafting ==
    [][ (state.current_draft = "" /\ executed' = "supervisor"
         /\ state'.errors = state.errors)
        => /\ next' = "drafting"
           /\ Last(state'.supervisor_decisions).next_agent = "drafting"
           /\ state'.iteration_count = state.iteration_count ]_vars

\* The supervisor has sent a session without a draft to drafting although
\* it holds an unresolved flag and its iteration count is past the cap.
C30_Witness ==
    /\ executed = "supervisor" /\ next = "drafting"
    /\ state.current_draft = "" /\ state.errors = <<>>
    /\ state.safety_flags # <<>>
    /\ state.iteration_count > state.max_iterations


\* C31: a supervisor step whose advisory suggests a step outside the valid
\* set, on a session with a draft, no unresolved critical flag and
\* iteration_count < max_iterations, decides drafting and the graph goes to
\* drafting; and every supervisor step is followed by one of drafting,
\* clinical_critic, safety_guardian, empathy, human_review, finalize or END.
C31_InvalidSuggestionNormalized ==
    [][ /\ (executed' = "supervisor"
            /\ advisory' \notin valid_agents \cup {NoSuggestion}
            /\ state.current_draft # ""
            /\ Unresolved(state, {"critical"}) = {}
            /\ state.iteration_count < state.max_iterations)
           => /\ Last(state'.supervisor_decisions).next_agent = "drafting"
              /\ next' = "drafting"
        /\ (executed' = "supervisor")
           => next' \in (GraphNodes \ {"supervisor"}) \cup {END} ]_vars

\* The supervisor was given a suggestion outside the valid set for a
\* session with a draft, no flag and an iteration below the cap, and sent
\* it to drafting.
C31_Witness ==
    /\ executed = "supervisor" /\ advisory \notin valid_agents \cup {NoSuggestion}
    /\ next = "drafting"
    /\ state.current_draft # "" /\ state.safety_flags = <<>>
    /\ state.iteration_count <= state.max_iterations
    /\ state.iteration_count >= 2


\* Whether a routing decision record is marked forced.
MarkedForced(record) == "forced" \in DOMAIN record /\ record.forced

\* C32: the decision record of a supervisor step that overrode its advisory
\* (an unresolved critical flag with a suggestion other than drafting, or a
\* suggestion outside the valid set) is marked forced, and the record of a
\* step that took the suggestion is not.
C32_OverrideIsMarkedForced ==
    (executed = "supervisor" /\ advisory # NoSuggestion)
      => LET record == Last(state.supervisor_decisions)
         IN  /\ (advisory \notin valid_agents
                 \/ (Unresolved(state, {"critical"}) # {} /\ advisory # "drafting"))
                  => MarkedForced(record)
             /\ (record.next_agent = advisory) => ~MarkedForced(record)


\* The limits list is called with.
Limits == {NoLimit, 0, 1, 2}

\* C33: list(thread_id, before, limit) yields only checkpoints of the
\* thread, each created after the ones that follow it; with a before that
\* names a checkpoint, only checkpoints created before that one; at most
\* limit entries; and the same sequence at every call on an unchanged table.
C33_ListOrderedAndBounded ==
    \A thread \in {thread_id, other_thread} :
    \A before \in {NoCheckpoint} \cup { checkpoints[i].checkpoint_id : i \in DOMAIN checkpoints } :
    \A limit \in Limits :
        LET results == list(checkpoints, thread, before, limit)
        IN  /\ Cardinality(results) = 1
            /\ \A result \in results :
                  /\ \A i \in DOMAIN result : result[i].thread_id = thread
                  /\ \A i, j \in DOMAIN result :
                        i < j => result[i].checkpoint_id > result[j].checkpoint_id
                  /\ \A i \in DOMAIN result :
                        (\E b \in DOMAIN checkpoints :
                            /\ checkpoints[b].thread_id = thread
                            /\ checkpoints[b].checkpoint_id = before)
                          => result[i].checkpoint_id < before
                  /\ (limit # NoLimit) => Len(result) <= limit

\* C36: get_tuple without a checkpoint_id returns the checkpoint of the
\* thread that was put last, which is the parent of no checkpoint, also
\* when two checkpoints carry one created_at; it returns none only for a
\* thread without checkpoints.
C36_LatestIsHead ==
    \A thread \in {thread_id, other_thread} :
        LET table == ThreadTable(checkpoints, thread)
        IN  /\ (get_tuple(table) = {}) <=> (table = <<>>)
            /\ \A tuple \in get_tuple(table) :
                  /\ tuple = Last(table)
                  /\ \A i \in DOMAIN table :
                        table[i].parent_checkpoint_id # tuple.checkpoint_id


-----------------------------------------------------------------------------
\* The updates a node may return when it runs on st, and the updates a human
\* decision may write on st: the channel update applied to each of them is
\* what one step or one decision does to the session state.
StepDeltas(node, st) ==
    LET failure == IF node \in AgentNames /\ MayFail(st)
                   THEN {invoke_error(node)} ELSE {}
    IN  failure \cup
        CASE node = "supervisor" ->
               { invoke_ok(node, supervisor_process(s, st)) : s \in Suggestions }
          [] node = "drafting" ->
               { invoke_ok(node, drafting_process(c, st)) : c \in DraftContents(st) }
          [] node = "clinical_critic" ->
               { invoke_ok(node, clinical_process(clinical_parse_evaluation(r), st)) :
                   r \in Responses(ClinicalEvaluations) }
          [] node = "safety_guardian" ->
               { invoke_ok(node, safety_process(_parse_safety_review(r), st)) :
                   r \in Responses(SafetyReviews(st)) }
          [] node = "empathy" ->
               { invoke_ok(node, empathy_process(empathy_parse_evaluation(r), st)) :
                   r \in Responses(EmpathyEvaluations) }
          [] node = "human_review" -> { human_review_node(st) }
          [] node = "finalize" -> { finalize_node(st) }
          [] OTHER -> {}

DecisionDeltas(st) ==
    IF st.approval_status = PENDING_HUMAN_REVIEW
    THEN { resume_updates(approved, feedback, edits, st) :
             approved \in BOOLEAN, feedback \in Feedbacks, edits \in EditChoices(st) }
    ELSE {}

IsPrefix(old, new) ==
    /\ Len(old) <= Len(new)
    /\ SubSeq(new, 1, Len(old)) = old

\* What an append-only session keeps across the update of one step.
OnlyGrows(node, st, delta) ==
    LET new == Apply(st, delta)
    IN  /\ \A f \in ListFields : IsPrefix(st[f], new[f])
        /\ \A name \in DOMAIN st.agent_notes :
              /\ name \in DOMAIN new.agent_notes
              /\ IsPrefix(st.agent_notes[name], new.agent_notes[name])
              /\ new.agent_notes[name] # st.agent_notes[name] => name = node
        /\ \A i \in DOMAIN st.safety_flags :
              st.safety_flags[i].resolved => new.safety_flags[i].resolved

\* C34: append-only logs only grow. Whatever the step about to run returns,
\* and whatever decision a human submits, the previous value of every
\* sequence field is a prefix of its new value, every list of the per-step
\* notes is extended, notes change only under the key of the step that ran,
\* and a resolved safety flag stays resolved.
C34_AppendOnlyLogsGrow ==
    /\ run = "running" =>
          \A delta \in StepDeltas(next, state) : OnlyGrows(next, state, delta)
    /\ run \in {"interrupted", "done"} =>
          \A delta \in DecisionDeltas(state) : OnlyGrows("human_decision", state, delta)

C34_Witness ==
    /\ executed = "human_decision"
    /\ Len(state.draft_versions) >= 2
    /\ state.safety_flags # <<>>
    /\ state.errors # <<>>
    /\ state.supervisor_decisions # <<>>
    /\ \E name \in DOMAIN state.agent_notes : state.agent_notes[name] # <<>>


-----------------------------------------------------------------------------
\* The top of the 0-10 scale of CerinaState.clinical_score, in tenths.
clinical_score_scale == 100

\* C35: the clinical score computed from the four dimension scores lies on
\* the 0-10 scale (0..100 tenths) and is their weighted average with the
\* weights 0.35, 0.25, 0.20, 0.20, the scale min_clinical_score is on.
C35_ClinicalScoreOnTenPointScale ==
    (executed = "clinical_critic" /\ state.clinical_feedback # <<>>) =>
        /\ state.clinical_score \in 0..clinical_score_scale
        /\ \E ev \in ClinicalEvaluations :
              10 * state.clinical_score = 35 * ev[1] + 25 * ev[2] + 20 * ev[3] + 20 * ev[4]


-----------------------------------------------------------------------------
\* The approval_status of the session of thread_id: the one of the
\* checkpoint put last.
ThreadStatus(table) == Last(ThreadTable(table, thread_id)).checkpoint_data

\* C37: a decision for a thread whose approval_status is not
\* pending_human_review is rejected and leaves the checkpoints of the thread
\* unchanged, and a decision for a thread without checkpoints is answered
\* "not found" and creates nothing: a caller's decision is accepted only
\* while the session is pending human review, and the step that answers a
\* decision with a rejection or "not found" writes nothing.
C37_DecisionOnlyWhenPending ==
    [][ \A c \in Callers :
          /\ (pc'[c] = "accepted" /\ pc[c] # "accepted") =>
                /\ ThreadTable(checkpoints, thread_id) # <<>>
                /\ ThreadStatus(checkpoints) = PENDING_HUMAN_REVIEW
          /\ (pc'[c] \in {"rejected", "not_found"} /\ pc[c] # pc'[c]) =>
                /\ checkpoints' = checkpoints
                /\ protocols' = protocols ]_vars


-----------------------------------------------------------------------------
\* C38: the step after a Supervisor step is the one that invocation decided.
\* When the invocation fails and returns only an error, the router does not
\* route by the next_agent of an earlier decision: an earlier human_review,
\* complete or terminate does not lead to human_review, finalize or the end.
C38_NoRoutingByStaleDecision ==
    [][ ( /\ run = "running" /\ next = "supervisor"
          /\ executed' = "supervisor" /\ advisory' = NoSuggestion
          /\ Len(state'.errors) = Len(state.errors) + 1
          /\ state.supervisor_decisions # <<>>
          /\ Last(state.supervisor_decisions).next_agent
                \in {"human_review", "complete", "terminate"} )
        => next' \notin {"human_review", "finalize", END} ]_vars


-----------------------------------------------------------------------------
\* C39: in every session state with at least one draft version,
\* current_draft is the content of the last element of draft_versions.
C39_CurrentDraftIsLastVersion ==
    state.draft_versions # <<>> =>
        state.current_draft = Last(state.draft_versions).content

C39_Witness ==
    /\ executed = "human_decision"
    /\ decision.edits # NoEdits
    /\ Len(state.draft_versions) >= 2
    /\ state.current_draft = decision.edits


-----------------------------------------------------------------------------
\* C40: the thread_id in the answer of the start operation identifies the
\* session the workflow runs.  When a caller starts a run, the run persists
\* under the thread_id the caller was answered with, and a start of the API
\* creates exactly one row of the protocols table, the one of that
\* thread_id.
C40_ReturnedThreadRunsWorkflow ==
    [][ \A c \in Callers :
          (pc[c] \in Ready /\ pc'[c] = "streaming") =>
              /\ Last(checkpoints').thread_id = create_protocol_response(c)
              /\ c = "api" => protocols' \ protocols = {create_protocol_response(c)} ]_vars

=============================================================================
